---- MODULE Spec2Model ----
(***************************************************************************)
(* A model of the Downloader of src/src/download.rs: the HEAD probe and    *)
(* strategy selection of download(), the segment arithmetic, spawning and  *)
(* joining of parallel(), the segment tasks, sequential(), the batch entry *)
(* point download_multiple() and the output path resolver.                 *)
(*                                                                         *)
(* Text (header values, file names, the Range header) is a sequence of     *)
(* tokens; a token is one character, or a word that the code only ever     *)
(* copies whole ("report", "bytes=").  Bytes are naturals.                 *)
(***************************************************************************)
EXTENDS Integers, Sequences, FiniteSets, TLC

\* ------------------------------------------------------------------ bounds
\* Largest size, in bytes, of the resource the server holds.
MaxLen == 3
\* Largest conn_count handed to Downloader::new.
MaxConn == 2
\* Largest number of bytes the body stream yields in one chunk.
MaxChunk == 2
\* Largest number of URLs handed to download_multiple.
MaxUrls == 3
\* Injected faults (I/O errors, transport errors, odd server answers,
\* abnormally terminating tasks) per run.
MaxFaults == 1
\* Width of the unsigned integer type standing for u64: TLC's integers are
\* 32 bits wide, so u64 arithmetic is carried out modulo 2^WordBits.
WordBits == 5

Modulus == 2 ^ WordBits

\* Option<T>: the empty sequence is None, a one-element sequence is Some.
None == <<>>
Some(v) == <<v>>
IsSome(o) == o /= <<>>
Unwrap(o) == o[1]

Min(a, b) == IF a < b THEN a ELSE b

\* ------------------------------------------------------- text <-> numbers
DigitChar == <<"0", "1", "2", "3", "4", "5", "6", "7", "8", "9">>

IsDigit(c) == \E d \in 1..10 : DigitChar[d] = c

DigitVal(c) == (CHOOSE d \in 1..10 : DigitChar[d] = c) - 1

\* Display of an unsigned integer, as format!("{}", n) writes it.
RECURSIVE Dec(_)
Dec(n) == IF n < 10 THEN <<DigitChar[n + 1]>>
          ELSE Dec(n \div 10) \o <<DigitChar[(n % 10) + 1]>>

\* The digits of s folded left to right with checked arithmetic: -1 on a
\* character that is no digit or on a value that does not fit the type.
RECURSIVE ParseDigits(_, _)
ParseDigits(s, acc) ==
    IF s = <<>> THEN acc
    ELSE IF ~IsDigit(Head(s)) THEN -1
    ELSE IF acc * 10 + DigitVal(Head(s)) >= Modulus THEN -1
    ELSE ParseDigits(Tail(s), acc * 10 + DigitVal(Head(s)))

\* str::parse::<u64>: an optional leading "+", then at least one digit;
\* -1 stands for Err.
ParseU64(s) ==
    IF s = <<>> THEN -1
    ELSE IF s = <<"+">> \/ s = <<"-">> THEN -1
    ELSE IF Head(s) = "+" THEN ParseDigits(Tail(s), 0)
    ELSE ParseDigits(s, 0)

\* HeaderValue::to_str: None when the value holds a byte that is not
\* visible ASCII (the token "\\xff").
ToStr(v) == IF \E k \in 1..Len(v) : v[k] = "\\xff" THEN None ELSE Some(v)

\* download(), lines 33-37: a missing, unreadable or unparseable
\* Content-Length is 0.
ContentLengthOf(header) ==
    IF header = None THEN 0
    ELSE IF ToStr(Unwrap(header)) = None THEN 0
    ELSE IF ParseU64(Unwrap(ToStr(Unwrap(header)))) = -1 THEN 0
    ELSE ParseU64(Unwrap(ToStr(Unwrap(header))))

\* download(), lines 39-43: the value is read as text and only its presence
\* is kept.
AcceptRangesOf(header) ==
    IF header = None THEN FALSE
    ELSE IsSome(ToStr(Unwrap(header)))

\* The test of line 50 with the length forgotten.
UseParallelAnyLength(cl, ar) == ar

\* download(), line 50.
UseParallel(cl, ar) == cl > 0 /\ ar

\* ------------------------------------------------------------ file names
\* Index of the last "." of a name, 0 when it has none.
LastDot(name) ==
    IF \E k \in 1..Len(name) : name[k] = "."
    THEN CHOOSE k \in 1..Len(name) :
            name[k] = "." /\ \A j \in (k + 1)..Len(name) : name[j] /= "."
    ELSE 0

\* Path::file_stem of a one-component path; None for the empty path.
FileStemOf(name) ==
    IF name = <<>> THEN None
    ELSE IF LastDot(name) <= 1 THEN Some(name)
    ELSE Some(SubSeq(name, 1, LastDot(name) - 1))

\* Path::extension of a one-component path; None when there is none.
ExtensionOf(name) ==
    IF name = <<>> THEN None
    ELSE IF LastDot(name) <= 1 THEN None
    ELSE Some(SubSeq(name, LastDot(name) + 1, Len(name)))

\* get_output_path, lines 143-149: the last path segment of the URL, or
\* "unnamed" when the URL does not parse or has no path segments.
FilenameOf(url) ==
    IF url.kind /= "ok" THEN <<"unnamed">>
    ELSE IF url.segments = <<>> THEN <<"unnamed">>
    ELSE url.segments[Len(url.segments)]

\* lines 152-155
file_stem(filename) ==
    IF FileStemOf(filename) = None THEN <<"unnamed">> ELSE Unwrap(FileStemOf(filename))

\* lines 156-159
ext(filename) ==
    IF ExtensionOf(filename) = None THEN <<>> ELSE Unwrap(ExtensionOf(filename))

\* format!("{} ({}).{}", file_stem, i, ext), line 167
SuffixForm(stem, i, e) == stem \o <<" (">> \o Dec(i) \o <<")", ".">> \o e

\* Path::exists of output_dir.join(name) in a directory holding the files
\* `names`: joining the empty name gives the directory itself.
Exists(names, name) == name = <<>> \/ name \in names

\* The loop of lines 164-169 as an `if`: the first suffix form is taken
\* without looking whether it exists.
ProbeOnce(names, stem, e, i) == SuffixForm(stem, i, e)

\* The while loop of lines 164-169, entered with counter i.
RECURSIVE ProbeFrom(_, _, _, _)
ProbeFrom(names, stem, e, i) ==
    IF Exists(names, SuffixForm(stem, i, e))
    THEN ProbeFrom(names, stem, e, i + 1)
    ELSE SuffixForm(stem, i, e)

\* get_output_path, lines 142-172 (the name inside output_dir).
get_output_path(names, url) ==
    IF Exists(names, FilenameOf(url))
    THEN ProbeFrom(names, file_stem(FilenameOf(url)), ext(FilenameOf(url)), 1)
    ELSE FilenameOf(url)

\* ------------------------------------------------------------ u64 values
\* a - b on the unsigned type: the wrapped value, and whether it underflowed.
SubWraps(a, b) == a < b
SubU64(a, b) == (a - b + Modulus) % Modulus
AddWraps(a, b) == a + b >= Modulus
AddU64(a, b) == (a + b) % Modulus
MulWraps(a, b) == a * b >= Modulus
MulU64(a, b) == (a * b) % Modulus

\* parallel(), line 80
ChunkSize(cl, cc) == cl \div cc

\* parallel(), line 85
SegStart(i, cs) == MulU64(i, cs)

\* parallel(), lines 86-90
SegEnd(i, cc, cl, cs) ==
    IF i = cc - 1 THEN SubU64(cl, 1)
    ELSE SubU64(AddU64(SegStart(i, cs), cs), 1)

\* Whether the arithmetic of lines 85-90 leaves the range of the type for
\* segment i: a panic where overflow checks are compiled in, a wrapped
\* value where they are not.
SegOverflows(i, cc, cl, cs) ==
    \/ MulWraps(i, cs)
    \/ IF i = cc - 1 THEN SubWraps(cl, 1)
       ELSE AddWraps(SegStart(i, cs), cs) \/ SubWraps(AddU64(SegStart(i, cs), cs), 1)

\* format!("bytes={}-{}", start, end), line 93
RangeHeader(start, end) == <<"bytes=">> \o Dec(start) \o <<"-">> \o Dec(end)

\* ----------------------------------------------------------------- server
\* The resource: the byte at offset k is k + 1, so that a byte in the wrong
\* place and a hole (0) both show.
Resource(len) == [k \in 1..len |-> k]

\* Body of a response with a non-success status.
ErrorPage == <<255>>

\* Index of the "-" of a Range header value.
DashOf(range) == CHOOSE k \in 1..Len(range) : range[k] = "-"

RangeFirst(range) == ParseDigits(SubSeq(range, 2, DashOf(range) - 1), 0)
RangeLast(range) == ParseDigits(SubSeq(range, DashOf(range) + 1, Len(range)), 0)

\* A server that honours "Range: bytes=first-last" (RFC 9110, 14.1.2): the
\* bytes first..last of the resource, last cut to the resource's end; a
\* range that starts past the end is not satisfiable; a range that is
\* malformed is ignored and the whole resource is sent.
RangeStatus(resource, range) ==
    IF RangeFirst(range) = -1 \/ RangeLast(range) = -1 THEN 200
    ELSE IF RangeLast(range) < RangeFirst(range) THEN 200
    ELSE IF RangeFirst(range) >= Len(resource) THEN 416
    ELSE 206

RangeBody(resource, range) ==
    IF RangeStatus(resource, range) = 200 THEN resource
    ELSE IF RangeStatus(resource, range) = 416 THEN ErrorPage
    ELSE SubSeq(resource, RangeFirst(range) + 1,
                Min(RangeLast(range), Len(resource) - 1) + 1)

IsSuccess(status) == status >= 200 /\ status < 300

\* ------------------------------------------------------------ file system
\* write_all that ignores the handle's cursor and writes at the start of
\* the file.
WriteAtStart(content, off, bytes) ==
    [k \in 1..(IF Len(bytes) > Len(content) THEN Len(bytes) ELSE Len(content)) |->
        IF k <= Len(bytes) THEN bytes[k] ELSE content[k]]

\* write_all of `bytes` at offset `off` of a file holding `content`: the
\* bytes replace what is there, a gap before them reads as zeros.
WriteAt(content, off, bytes) ==
    [k \in 1..(IF off + Len(bytes) > Len(content) THEN off + Len(bytes) ELSE Len(content)) |->
        IF k > off /\ k <= off + Len(bytes) THEN bytes[k - off]
        ELSE IF k <= Len(content) THEN content[k]
        ELSE 0]

\* The open of lines 98-102 with truncate(true) added, as File::create does.
OpenTruncating(files, path) ==
    [p \in DOMAIN files \cup {path} |-> IF p = path THEN <<>> ELSE files[p]]

\* OpenOptions::new().write(true).create(true).open(path), lines 98-102:
\* an existing file is opened as it is, a missing one is created empty.
OpenCreate(files, path) ==
    IF path \in DOMAIN files THEN files ELSE files @@ (path :> <<>>)

\* File::create(path), line 133: an existing file is truncated.
CreateTruncate(files, path) ==
    [p \in DOMAIN files \cup {path} |-> IF p = path THEN <<>> ELSE files[p]]

\* ------------------------------------------------------------------ state
VARIABLES
    overflow_checks,  \* the build: TRUE when integer overflow panics (debug)
    conn_count,       \* Downloader.conn_count
    server,           \* what the remote end holds and answers to HEAD
    files,            \* output_dir: file name -> content
    call,             \* the entry point called, with its argument
    pc,               \* where the call is
    content_length,   \* download(): parsed Content-Length
    accept_ranges,    \* download(): range support as the code reads it
    chunk_size,       \* parallel(): content_length / conn_count
    output_path,      \* parallel(): the path all segment tasks open
    next_i,           \* parallel(): next index of the map over 0..conn_count
    tasks,            \* parallel(): the spawned segment tasks, by index
    joined,           \* parallel(): tasks whose JoinHandle has been taken
    next_url,         \* download_multiple(): URLs spawned so far
    seqs,             \* runs of sequential(): 0 inline, k for the k-th URL
    result,           \* what the call returned
    faults            \* faults injected so far

vars == <<overflow_checks, conn_count, server, files, call, pc, content_length,
          accept_ranges, chunk_size, output_path, next_i, tasks, joined, next_url,
          seqs, result, faults>>

\* Downloader::new, line 21
new(requested) == IF requested > 0 THEN requested ELSE 1

\* ----------------------------------------------------------------- inputs
UrlReport == [kind |-> "ok", segments |-> <<<<"data">>, <<"report", ".", "txt">>>>]
UrlReadme == [kind |-> "ok", segments |-> <<<<"README">>>>]
UrlSlash == [kind |-> "ok", segments |-> <<<<"data">>, <<>>>>]
UrlMailto == [kind |-> "ok", segments |-> <<>>]
UrlBad == [kind |-> "unparseable", segments |-> <<>>]

Urls == {UrlReport, UrlReadme, UrlSlash, UrlMailto, UrlBad}

OldContent == <<9>>

\* Directories the output directory may be found in.
Directories ==
    { [n \in names |-> OldContent] :
        names \in { {},
                    { <<"report", ".", "txt">> },
                    { <<"report", ".", "txt">>, <<"report", " (", "1", ")", ".", "txt">> },
                    { <<"README">>, <<"unnamed">> } } }

\* Content-Length values a HEAD response may carry.
ContentLengthHeaders ==
    { None, Some(<<"+">> \o Dec(MaxLen)), Some(<<"-", "1">>), Some(<<"2", "x">>),
      Some(<<"\\xff">>), Some(Dec(Modulus - 1) \o <<"0">>), Some(<<>>) }
    \cup { Some(Dec(n)) : n \in 0..MaxLen }

\* Accept-Ranges values a HEAD response may carry.
AcceptRangesHeaders ==
    { None, Some(<<"bytes">>), Some(<<"none">>), Some(<<"NONE">>), Some(<<"\\xff">>) }

\* The remote end: the resource it holds, whether requests reach it, the
\* status it answers requests for the URL with, and the two headers of its
\* HEAD response.
Servers ==
    [resource : { Resource(len) : len \in 0..MaxLen },
     transport : BOOLEAN,
     status : {200, 404},
     content_length : ContentLengthHeaders,
     accept_ranges : AcceptRangesHeaders]

\* A server that reports the resource's size and answers with success.
HonestServer(len, ar) ==
    [resource |-> Resource(len), transport |-> TRUE, status |-> 200,
     content_length |-> Some(Dec(len)), accept_ranges |-> ar]

\* Sequences of at most n elements of S.
SeqsUpTo(S, n) == UNION { [1..m -> S] : m \in 0..n }

EmptyDir == <<>>

DownloadCall(url) == [kind |-> "download", url |-> url, urls |-> <<>>]

MultipleCall(urls) == [kind |-> "download_multiple", url |-> UrlBad, urls |-> urls]

\* download() against every server, over one or two connections, into an
\* empty directory.
ProbeInputs ==
    [overflow_checks : BOOLEAN, requested : {0, 2}, server : Servers,
     files : {EmptyDir}, call : {DownloadCall(UrlReport)}]

\* download() from an honest server that supports ranges, for every
\* resource size and every connection count.
SegmentInputs ==
    [overflow_checks : BOOLEAN, requested : 0..MaxConn,
     server : { HonestServer(len, Some(<<"bytes">>)) : len \in 0..MaxLen },
     files : {EmptyDir}, call : {DownloadCall(UrlReport)}]

\* download() of every URL into every directory, from an honest server.
PathInputs ==
    [overflow_checks : {FALSE}, requested : {2},
     server : { HonestServer(MaxLen, ar) : ar \in {None, Some(<<"bytes">>)} },
     files : Directories, call : { DownloadCall(u) : u \in Urls }]

\* download_multiple() of up to MaxUrls URLs, from an honest server.
BatchInputs ==
    [overflow_checks : {FALSE}, requested : 0..MaxConn,
     server : { HonestServer(2, None) },
     files : { d \in Directories : Cardinality(DOMAIN d) <= 1 },
     call : { MultipleCall(us) : us \in SeqsUpTo({UrlReport, UrlReadme}, MaxUrls) }]

\* The state after Downloader::new and the call of an entry point, for
\* the inputs `inputs`.
InitFrom(inputs) ==
    /\ \E in \in inputs :
          /\ overflow_checks = in.overflow_checks
          /\ conn_count = new(in.requested)
          /\ server = in.server
          /\ files = in.files
          /\ call = in.call
    /\ pc = IF call.kind = "download" THEN "head" ELSE "batch"
    /\ content_length = 0
    /\ accept_ranges = FALSE
    /\ chunk_size = 0
    /\ output_path = <<>>
    /\ next_i = 0
    /\ tasks = <<>>
    /\ joined = {}
    /\ next_url = 0
    /\ seqs = <<>>
    /\ result = None
    /\ faults = 0

\* A call of download().
Init == InitFrom(ProbeInputs \cup SegmentInputs \cup PathInputs)

\* A call of download_multiple().
InitBatch == InitFrom(BatchInputs)

Ok(v) == [kind |-> "Ok", value |-> v]
Err(e) == [kind |-> "Err", value |-> <<e>>]

\* ------------------------------------------------------------- download()
\* line 31: the HEAD request fails in transport and `?` returns the error.
ProbeFails ==
    /\ pc = "head" /\ call.kind = "download"
    /\ ~server.transport
    /\ pc' = "returned"
    /\ result' = Some(Err("RequestError"))
    /\ UNCHANGED <<overflow_checks, conn_count, server, files, call, content_length,
                   accept_ranges, chunk_size, output_path, next_i, tasks, joined,
                   next_url, seqs, faults>>

\* lines 31-48: a response arrived, whatever its status; the two headers
\* are read.
Probe ==
    /\ pc = "head" /\ call.kind = "download"
    /\ server.transport
    /\ content_length' = ContentLengthOf(server.content_length)
    /\ accept_ranges' = AcceptRangesOf(server.accept_ranges)
    /\ pc' = "select"
    /\ UNCHANGED <<overflow_checks, conn_count, server, files, call, chunk_size,
                   output_path, next_i, tasks, joined, next_url, seqs, result, faults>>

\* A run of sequential() that resolves its path before it sends its
\* request, and sends none.
NewSeqResolved(url, batch) ==
    [url |-> url, batch |-> batch, pc |-> "create", status |-> 0, stream |-> <<>>,
     path |-> get_output_path(DOMAIN files, url), cursor |-> 0, result |-> None]

\* A run of sequential() that has not sent its request yet.
NewSeq(url, batch) ==
    [url |-> url, batch |-> batch, pc |-> "get", status |-> 0, stream |-> <<>>,
     path |-> <<>>, cursor |-> 0, result |-> None]

\* lines 50-51 and parallel(), lines 80-81
SelectParallel ==
    /\ pc = "select"
    /\ UseParallel(content_length, accept_ranges)
    /\ chunk_size' = ChunkSize(content_length, conn_count)
    /\ output_path' = get_output_path(DOMAIN files, call.url)
    /\ next_i' = 0
    /\ pc' = "spawn"
    /\ UNCHANGED <<overflow_checks, conn_count, server, files, call, content_length,
                   accept_ranges, tasks, joined, next_url, seqs, result, faults>>

\* lines 52-53
SelectSequential ==
    /\ pc = "select"
    /\ ~UseParallel(content_length, accept_ranges)
    /\ seqs' = (0 :> NewSeq(call.url, 0))
    /\ pc' = "sequential"
    /\ UNCHANGED <<overflow_checks, conn_count, server, files, call, content_length,
                   accept_ranges, chunk_size, output_path, next_i, tasks, joined,
                   next_url, result, faults>>

\* ------------------------------------------------------------- parallel()
\* The task spawned for index i, lines 85-97, before it has run.
NewTask(i, cc, cl, cs) ==
    [start |-> SegStart(i, cs), end |-> SegEnd(i, cc, cl, cs),
     range |-> RangeHeader(SegStart(i, cs), SegEnd(i, cc, cl, cs)),
     pc |-> "open", status |-> 0, body |-> <<>>, stream |-> <<>>, cursor |-> 0,
     result |-> None]

\* One step of the map of lines 83-120: the range of index next_i is
\* computed and its task spawned.
Spawn ==
    /\ pc = "spawn"
    /\ next_i < conn_count
    /\ ~(overflow_checks /\ SegOverflows(next_i, conn_count, content_length, chunk_size))
    /\ tasks' = tasks @@ (next_i :> NewTask(next_i, conn_count, content_length, chunk_size))
    /\ next_i' = next_i + 1
    /\ pc' = IF next_i + 1 = conn_count THEN "join" ELSE "spawn"
    /\ UNCHANGED <<overflow_checks, conn_count, server, files, call, content_length,
                   accept_ranges, chunk_size, output_path, joined, next_url, seqs,
                   result, faults>>

\* The same step in a build with overflow checks, when the arithmetic
\* overflows: parallel() panics, and download() with it.
SpawnPanics ==
    /\ pc = "spawn"
    /\ next_i < conn_count
    /\ overflow_checks
    /\ SegOverflows(next_i, conn_count, content_length, chunk_size)
    /\ pc' = "panicked"
    /\ result' = Some([kind |-> "Panic", value |-> <<"attempt to subtract with overflow">>])
    /\ UNCHANGED <<overflow_checks, conn_count, server, files, call, content_length,
                   accept_ranges, chunk_size, output_path, next_i, tasks, joined,
                   next_url, seqs, faults>>

\* What a GET of this server's resource is answered with, the request
\* carrying the Range header `range` (None: no Range header).
GetStatus(range) ==
    IF ~IsSuccess(server.status) THEN server.status
    ELSE IF range = None THEN 200
    ELSE RangeStatus(server.resource, Unwrap(range))

GetBody(range) ==
    IF ~IsSuccess(server.status) THEN ErrorPage
    ELSE IF range = None THEN server.resource
    ELSE RangeBody(server.resource, Unwrap(range))

\* A join that does not wait for the task.
TerminatedOrRunning(t) == TRUE

\* A JoinHandle is ready once its task has returned or has ended without
\* returning, lines 120-123.
Terminated(t) == t.pc \in {"done", "aborted"}

\* lines 98-102
TaskOpen(i) ==
    /\ tasks[i].pc = "open"
    /\ files' = OpenCreate(files, output_path)
    /\ tasks' = [tasks EXCEPT ![i].pc = "get"]
    /\ UNCHANGED <<overflow_checks, conn_count, server, call, pc, content_length,
                   accept_ranges, chunk_size, output_path, next_i, joined, next_url,
                   seqs, result, faults>>

\* lines 104-109: send() yields the response whatever its status is, and
\* bytes_stream() its body.
TaskGet(i) ==
    /\ tasks[i].pc = "get"
    /\ tasks' = [tasks EXCEPT ![i].pc = "seek",
                              ![i].status = GetStatus(Some(tasks[i].range)),
                              ![i].body = GetBody(Some(tasks[i].range)),
                              ![i].stream = GetBody(Some(tasks[i].range))]
    /\ UNCHANGED <<overflow_checks, conn_count, server, files, call, pc, content_length,
                   accept_ranges, chunk_size, output_path, next_i, joined, next_url,
                   seqs, result, faults>>

\* lines 104-109, with a server or proxy that does not answer this request
\* as it should: a non-success status with an error page, or the Range
\* header ignored and the whole resource sent.
TaskGetOdd(i) ==
    /\ tasks[i].pc = "get"
    /\ faults < MaxFaults
    /\ faults' = faults + 1
    /\ \E answer \in { [status |-> 404, body |-> ErrorPage],
                       [status |-> 200, body |-> server.resource] } :
          tasks' = [tasks EXCEPT ![i].pc = "seek",
                                 ![i].status = answer.status,
                                 ![i].body = answer.body,
                                 ![i].stream = answer.body]
    /\ UNCHANGED <<overflow_checks, conn_count, server, files, call, pc, content_length,
                   accept_ranges, chunk_size, output_path, next_i, joined, next_url,
                   seqs, result>>

\* line 111
TaskSeek(i) ==
    /\ tasks[i].pc = "seek"
    /\ tasks' = [tasks EXCEPT ![i].pc = "write", ![i].cursor = tasks[i].start]
    /\ UNCHANGED <<overflow_checks, conn_count, server, files, call, pc, content_length,
                   accept_ranges, chunk_size, output_path, next_i, joined, next_url,
                   seqs, result, faults>>

\* lines 113-115: the next chunk of the body is written where the handle's
\* cursor is.  write_all is taken to have reached the file when it returns.
TaskWrite(i) ==
    /\ tasks[i].pc = "write"
    /\ tasks[i].stream /= <<>>
    /\ \E n \in 1..Min(Len(tasks[i].stream), MaxChunk) :
          /\ files' = [files EXCEPT ![output_path] =
                          WriteAt(@, tasks[i].cursor, SubSeq(tasks[i].stream, 1, n))]
          /\ tasks' = [tasks EXCEPT
                          ![i].cursor = @ + n,
                          ![i].stream = SubSeq(@, n + 1, Len(@))]
    /\ UNCHANGED <<overflow_checks, conn_count, server, call, pc, content_length,
                   accept_ranges, chunk_size, output_path, next_i, joined, next_url,
                   seqs, result, faults>>

\* line 117: the stream has ended.
TaskFinish(i) ==
    /\ tasks[i].pc = "write"
    /\ tasks[i].stream = <<>>
    /\ tasks' = [tasks EXCEPT ![i].pc = "done", ![i].result = Some(Ok(<<>>))]
    /\ UNCHANGED <<overflow_checks, conn_count, server, files, call, pc, content_length,
                   accept_ranges, chunk_size, output_path, next_i, joined, next_url,
                   seqs, result, faults>>

\* The errors the `?` of lines 102, 108, 111 and 114 return from, by the
\* step the task is at.
ErrorsAt(at) ==
    CASE at = "open" -> {"FileWriteError"}
      [] at = "get" -> {"RequestError"}
      [] at = "seek" -> {"FileWriteError"}
      [] at = "create" -> {"FileWriteError"}
      [] at = "write" -> {"RequestError", "FileWriteError"}
      [] OTHER -> {}

\* A step of the task fails and the task returns the error.
TaskFails(i) ==
    /\ faults < MaxFaults
    /\ faults' = faults + 1
    /\ \E e \in ErrorsAt(tasks[i].pc) :
          tasks' = [tasks EXCEPT ![i].pc = "done", ![i].result = Some(Err(e))]
    /\ UNCHANGED <<overflow_checks, conn_count, server, files, call, pc, content_length,
                   accept_ranges, chunk_size, output_path, next_i, joined, next_url,
                   seqs, result>>

\* The task ends without returning (it panics or is cancelled): its
\* JoinHandle yields a JoinError.
TaskAborts(i) ==
    /\ ~Terminated(tasks[i])
    /\ faults < MaxFaults
    /\ faults' = faults + 1
    /\ tasks' = [tasks EXCEPT ![i].pc = "aborted"]
    /\ UNCHANGED <<overflow_checks, conn_count, server, files, call, pc, content_length,
                   accept_ranges, chunk_size, output_path, next_i, joined, next_url,
                   seqs, result>>

\* `result?` of line 123 on the output of a task's JoinHandle: a JoinError
\* is returned from parallel(); the value the task returned is dropped.
JoinReturns(t) == IF t.pc = "aborted" THEN Some(Err("JoinError")) ELSE None

\* lines 122-124: the next finished task is taken from the FuturesUnordered.
JoinNext ==
    /\ pc = "join"
    /\ \E i \in DOMAIN tasks \ joined :
          /\ Terminated(tasks[i])
          /\ joined' = joined \cup {i}
          /\ IF JoinReturns(tasks[i]) /= None
             THEN pc' = "returned" /\ result' = JoinReturns(tasks[i])
             ELSE UNCHANGED <<pc, result>>
    /\ UNCHANGED <<overflow_checks, conn_count, server, files, call, content_length,
                   accept_ranges, chunk_size, output_path, next_i, tasks, next_url,
                   seqs, faults>>

\* line 126 and download(), line 56: the FuturesUnordered is empty.
ParallelReturns ==
    /\ pc = "join"
    /\ joined = DOMAIN tasks
    /\ pc' = "returned"
    /\ result' = Some(Ok(output_path))
    /\ UNCHANGED <<overflow_checks, conn_count, server, files, call, content_length,
                   accept_ranges, chunk_size, output_path, next_i, tasks, joined,
                   next_url, seqs, faults>>

\* ----------------------------------------------------------- sequential()
\* lines 131-132: the response to the GET arrives, whatever its status is,
\* and the output path is resolved against the directory as it is now.
SeqGet(k) ==
    /\ seqs[k].pc = "get"
    /\ seqs' = [seqs EXCEPT ![k].pc = "create",
                            ![k].status = GetStatus(None),
                            ![k].stream = GetBody(None),
                            ![k].path = get_output_path(DOMAIN files, seqs[k].url)]
    /\ UNCHANGED <<overflow_checks, conn_count, server, files, call, pc, content_length,
                   accept_ranges, chunk_size, output_path, next_i, tasks, joined,
                   next_url, result, faults>>

\* line 133
SeqCreate(k) ==
    /\ seqs[k].pc = "create"
    /\ files' = CreateTruncate(files, seqs[k].path)
    /\ seqs' = [seqs EXCEPT ![k].pc = "write", ![k].cursor = 0]
    /\ UNCHANGED <<overflow_checks, conn_count, server, call, pc, content_length,
                   accept_ranges, chunk_size, output_path, next_i, tasks, joined,
                   next_url, result, faults>>

\* lines 135-137: the next chunk of the body is written where the handle's
\* cursor is.  write_all is taken to have reached the file when it returns.
SeqWrite(k) ==
    /\ seqs[k].pc = "write"
    /\ seqs[k].stream /= <<>>
    /\ \E n \in 1..Min(Len(seqs[k].stream), MaxChunk) :
          /\ files' = [files EXCEPT ![seqs[k].path] =
                          WriteAt(@, seqs[k].cursor, SubSeq(seqs[k].stream, 1, n))]
          /\ seqs' = [seqs EXCEPT
                          ![k].cursor = @ + n,
                          ![k].stream = SubSeq(@, n + 1, Len(@))]
    /\ UNCHANGED <<overflow_checks, conn_count, server, call, pc, content_length,
                   accept_ranges, chunk_size, output_path, next_i, tasks, joined,
                   next_url, result, faults>>

\* line 139
SeqFinish(k) ==
    /\ seqs[k].pc = "write"
    /\ seqs[k].stream = <<>>
    /\ seqs' = [seqs EXCEPT ![k].pc = "done", ![k].result = Some(Ok(seqs[k].path))]
    /\ UNCHANGED <<overflow_checks, conn_count, server, files, call, pc, content_length,
                   accept_ranges, chunk_size, output_path, next_i, tasks, joined,
                   next_url, result, faults>>

\* A step of sequential() fails and `?` returns the error.
SeqFails(k) ==
    /\ faults < MaxFaults
    /\ faults' = faults + 1
    /\ \E e \in ErrorsAt(seqs[k].pc) :
          seqs' = [seqs EXCEPT ![k].pc = "done", ![k].result = Some(Err(e))]
    /\ UNCHANGED <<overflow_checks, conn_count, server, files, call, pc, content_length,
                   accept_ranges, chunk_size, output_path, next_i, tasks, joined,
                   next_url, result>>

\* A spawned run of sequential() ends without returning.
SeqAborts(k) ==
    /\ k /= 0
    /\ ~Terminated(seqs[k])
    /\ faults < MaxFaults
    /\ faults' = faults + 1
    /\ seqs' = [seqs EXCEPT ![k].pc = "aborted"]
    /\ UNCHANGED <<overflow_checks, conn_count, server, files, call, pc, content_length,
                   accept_ranges, chunk_size, output_path, next_i, tasks, joined,
                   next_url, result>>

\* download(), lines 53-56: the inline sequential() has returned.
SequentialReturns ==
    /\ pc = "sequential"
    /\ seqs[0].pc = "done"
    /\ pc' = "returned"
    /\ result' = seqs[0].result
    /\ UNCHANGED <<overflow_checks, conn_count, server, files, call, content_length,
                   accept_ranges, chunk_size, output_path, next_i, tasks, joined,
                   next_url, seqs, faults>>

\* ----------------------------------------------------- download_multiple()
\* urls.chunks(conn_count), line 63: the batch the k-th URL (from 1) is in.
BatchOf(k, cc) == (k - 1) \div cc

\* lines 65-73: the next URL of the current batch is mapped to a spawned
\* task running sequential(); the JoinHandles collected for a batch are
\* dropped at the end of the loop body without being polled.
SpawnDownload ==
    /\ pc = "batch"
    /\ next_url < Len(call.urls)
    /\ seqs' = seqs @@ ((next_url + 1) :>
                  NewSeq(call.urls[next_url + 1], BatchOf(next_url + 1, conn_count)))
    /\ next_url' = next_url + 1
    /\ UNCHANGED <<overflow_checks, conn_count, server, files, call, pc, content_length,
                   accept_ranges, chunk_size, output_path, next_i, tasks, joined,
                   result, faults>>

\* line 75
MultipleReturns ==
    /\ pc = "batch"
    /\ next_url = Len(call.urls)
    /\ pc' = "returned"
    /\ result' = Some(Ok(<<>>))
    /\ UNCHANGED <<overflow_checks, conn_count, server, files, call, content_length,
                   accept_ranges, chunk_size, output_path, next_i, tasks, joined,
                   next_url, seqs, faults>>

\* ------------------------------------------------------------------- spec
\* download()
Next ==
    \/ ProbeFails
    \/ Probe
    \/ SelectParallel
    \/ SelectSequential
    \/ Spawn
    \/ SpawnPanics
    \/ \E i \in DOMAIN tasks : TaskOpen(i)
    \/ \E i \in DOMAIN tasks : TaskGet(i)
    \/ \E i \in DOMAIN tasks : TaskGetOdd(i)
    \/ \E i \in DOMAIN tasks : TaskSeek(i)
    \/ \E i \in DOMAIN tasks : TaskWrite(i)
    \/ \E i \in DOMAIN tasks : TaskFinish(i)
    \/ \E i \in DOMAIN tasks : TaskFails(i)
    \/ \E i \in DOMAIN tasks : TaskAborts(i)
    \/ JoinNext
    \/ ParallelReturns
    \/ \E k \in DOMAIN seqs : SeqGet(k)
    \/ \E k \in DOMAIN seqs : SeqCreate(k)
    \/ \E k \in DOMAIN seqs : SeqWrite(k)
    \/ \E k \in DOMAIN seqs : SeqFinish(k)
    \/ \E k \in DOMAIN seqs : SeqFails(k)
    \/ SequentialReturns

Spec == Init /\ [][Next]_vars

\* download_multiple()
NextBatch ==
    \/ SpawnDownload
    \/ MultipleReturns
    \/ \E k \in DOMAIN seqs : SeqGet(k)
    \/ \E k \in DOMAIN seqs : SeqCreate(k)
    \/ \E k \in DOMAIN seqs : SeqWrite(k)
    \/ \E k \in DOMAIN seqs : SeqFinish(k)
    \/ \E k \in DOMAIN seqs : SeqFails(k)
    \/ \E k \in DOMAIN seqs : SeqAborts(k)

SpecBatch == InitBatch /\ [][NextBatch]_vars

\* ------------------------------------------------------------ properties
\* The call is download() and it went into parallel().
ParallelTaken ==
    /\ call.kind = "download"
    /\ \/ pc \in {"spawn", "join", "panicked"}
       \/ pc = "returned" /\ next_i > 0

\* The call is download() and it went into sequential().
SequentialTaken == call.kind = "download" /\ 0 \in DOMAIN seqs

\* parallel() is past the map of lines 83-120, or has panicked in it.
PlanOver == ParallelTaken /\ (next_i = conn_count \/ pc = "panicked")

\* The bytes first..last of the resource, last cut to the resource's end.
BytesOf(resource, first, last) ==
    [k \in 1..(Min(last, Len(resource) - 1) - first + 1) |-> resource[first + k]]

\* Task t was answered with a success status and exactly the bytes of the
\* range it asked for.
ExactAnswer(t) ==
    /\ IsSuccess(t.status)
    /\ t.body = BytesOf(server.resource, t.start, t.end)

AllTasksOk ==
    /\ DOMAIN tasks = 0..(conn_count - 1)
    /\ \A i \in DOMAIN tasks : tasks[i].pc = "done" /\ tasks[i].result = Some(Ok(<<>>))

\* C1: when the resource has content_length > 0 bytes, every range request
\* was answered with exactly the requested bytes and every segment task
\* has returned Ok, the output file holds exactly the resource's bytes, in
\* every interleaving of the tasks.
C1_RoundTrip ==
    ( /\ ParallelTaken
      /\ content_length > 0
      /\ Len(server.resource) = content_length
      /\ AllTasksOk
      /\ \A i \in DOMAIN tasks : ExactAnswer(tasks[i]) )
    => files[output_path] = server.resource

\* A download over several connections of a resource of several bytes has
\* returned its path, every task answered exactly and finished.
C1_Witness ==
    /\ ParallelTaken
    /\ pc = "returned"
    /\ result = Some(Ok(output_path))
    /\ conn_count >= 2
    /\ content_length >= conn_count + 1
    /\ Len(server.resource) = content_length
    /\ AllTasksOk
    /\ \A i \in DOMAIN tasks : ExactAnswer(tasks[i])
    /\ files[output_path] = server.resource

\* The ranges of the spawned tasks partition [0, cl - 1]: cc of them, in
\* ascending order, each starting right after the one before, none empty.
IsPartition(ts, cl, cc) ==
    /\ DOMAIN ts = 0..(cc - 1)
    /\ ts[0].start = 0
    /\ ts[cc - 1].end = cl - 1
    /\ \A i \in DOMAIN ts : ts[i].start <= ts[i].end
    /\ \A i \in DOMAIN ts : i + 1 \in DOMAIN ts => ts[i + 1].start = ts[i].end + 1

\* C2: for every content_length > 0 and conn_count >= 1 the byte ranges
\* parallel() assigns to its segment tasks partition [0, content_length-1]:
\* ascending, contiguous, non-overlapping, covering, start <= end.
C2_Partition ==
    (ParallelTaken /\ next_i = conn_count)
    => IsPartition(tasks, content_length, conn_count)

\* C3: when conn_count > content_length the planner uses content_length
\* segments of one byte each, and computing a segment's end never
\* evaluates 0 - 1 on the unsigned type.
C3_Clamp ==
    (PlanOver /\ conn_count > content_length)
    => /\ pc /= "panicked"
       /\ DOMAIN tasks = 0..(content_length - 1)
       /\ \A i \in DOMAIN tasks : tasks[i].start = i /\ tasks[i].end = i
       /\ \A i \in DOMAIN tasks :
             ~SegOverflows(i, conn_count, content_length, chunk_size)

\* The Content-Length header reads as the number n: its decimal digits,
\* with or without a leading "+".
ReportsLength(header, n) ==
    header = Some(Dec(n)) \/ header = Some(<<"+">> \o Dec(n))

\* The probe response reports a content length > 0.
ReportsPositiveLength == \E n \in 1..(Modulus - 1) : ReportsLength(server.content_length, n)

\* The probe response carries a range-support header with a readable value.
ReportsRanges ==
    /\ server.accept_ranges /= None
    /\ \A k \in 1..Len(Unwrap(server.accept_ranges)) :
          Unwrap(server.accept_ranges)[k] /= "\\xff"

\* download() is past the probe and the choice of strategy.
Selected == call.kind = "download" /\ server.transport /\ pc \notin {"head", "select"}

\* C4: after the probe, parallel() is taken exactly when the probed content
\* length is > 0 and range support is reported, sequential() in every
\* other case, and exactly one of the two runs.
C4_Selection ==
    Selected =>
        /\ ParallelTaken <=> (ReportsPositiveLength /\ ReportsRanges)
        /\ SequentialTaken <=> ~(ReportsPositiveLength /\ ReportsRanges)
        /\ ParallelTaken /= SequentialTaken

\* sequential() has run to its end although the probe reported ranges,
\* because the Content-Length did not parse.
C4_Witness ==
    /\ Selected
    /\ pc = "returned"
    /\ SequentialTaken
    /\ ReportsRanges
    /\ server.content_length = Some(<<"2", "x">>)

\* The value of the range-support header is the token "none", in any case.
SaysNoRanges ==
    server.accept_ranges \in { Some(<<"none">>), Some(<<"NONE">>) }

\* C5: when the range-support header of the probe response says "none"
\* (case-insensitive), download() takes sequential(), even when
\* content_length > 0.
C5_NoneIsSequential ==
    (Selected /\ SaysNoRanges) => (SequentialTaken /\ ~ParallelTaken)

\* Some segment task's GET was answered with a non-success status.
SomeSegmentRefused ==
    \E i \in DOMAIN tasks : tasks[i].status /= 0 /\ ~IsSuccess(tasks[i].status)

NoTaskAborted == \A i \in DOMAIN tasks : tasks[i].pc /= "aborted"

\* C6: in a parallel download, if the GET of a segment is answered with a
\* non-success status (and nothing else goes wrong), download() returns
\* RequestError and never the path.
C6_StatusIsError ==
    (ParallelTaken /\ pc = "returned" /\ SomeSegmentRefused /\ faults = 0)
    => result = Some(Err("RequestError"))

\* The error values the segment tasks have returned.
TaskErrors ==
    { tasks[i].result : i \in { j \in DOMAIN tasks :
          tasks[j].result /= None /\ Unwrap(tasks[j].result).kind = "Err" } }

\* C7: no segment error is swallowed: if a segment task ends with an error
\* value, download() returns an error of that kind, and download() returns
\* the path only if every segment task returned Ok.
C7_NoSwallow ==
    (ParallelTaken /\ pc = "returned")
    => /\ (TaskErrors /= {} /\ NoTaskAborted) => result \in TaskErrors
       /\ (Unwrap(result).kind = "Ok") => AllTasksOk

\* The spawned downloads of download_multiple().
Downloads == DOMAIN seqs \ {0}

\* C8: download_multiple() takes its URLs in batches of conn_count: no
\* download of a later batch has started while a download of an earlier
\* batch has not completed, and the call returns only after every download
\* of every batch has completed.
C8_BatchOrder ==
    call.kind = "download_multiple"
    => /\ \A j, k \in Downloads :
             seqs[j].batch < seqs[k].batch => Terminated(seqs[j])
       /\ pc = "returned" =>
             /\ Downloads = 1..Len(call.urls)
             /\ \A k \in Downloads : Terminated(seqs[k])

\* C9: when every download succeeds download_multiple() returns one
\* resolved path per URL, and it never returns success while a download it
\* started has failed.
C9_BatchResults ==
    (call.kind = "download_multiple" /\ pc = "returned" /\ Unwrap(result).kind = "Ok")
    => /\ Len(Unwrap(result).value) = Len(call.urls)
       /\ \A k \in Downloads :
             /\ seqs[k].result = Some(Ok(seqs[k].path))
             /\ Unwrap(result).value[k] = seqs[k].path

\* The name the resolver is to return for `url` in a directory holding
\* `names`: the candidate when it is free, else the suffix form with the
\* smallest counter >= 1 that is free.
IsResolution(names, url, path) ==
    /\ ~Exists(names, path)
    /\ IF ~Exists(names, FilenameOf(url)) THEN path = FilenameOf(url)
       ELSE \E i \in 1..(Cardinality(names) + 1) :
               /\ path = SuffixForm(file_stem(FilenameOf(url)), i, ext(FilenameOf(url)))
               /\ \A j \in 1..(i - 1) :
                     Exists(names, SuffixForm(file_stem(FilenameOf(url)), j,
                                              ext(FilenameOf(url))))
    /\ (url = UrlReport /\ <<"report", ".", "txt">> \in names) =>
          IF <<"report", " (", "1", ")", ".", "txt">> \notin names
          THEN path = <<"report", " (", "1", ")", ".", "txt">>
          ELSE <<"report", " (", "2", ")", ".", "txt">> \notin names
               => path = <<"report", " (", "2", ")", ".", "txt">>

\* C10: whatever files the output directory holds, the resolver returns a
\* path that does not exist when it checks: the candidate when that is
\* free, else the suffix form with the smallest counter i >= 1 that is
\* free; and the resolver creates no file.
C10_Resolver ==
    [][ /\ (pc = "select" /\ pc' = "spawn")
           => /\ IsResolution(DOMAIN files, call.url, output_path')
              /\ files' = files
        /\ \A k \in DOMAIN seqs :
              (seqs[k].pc = "get" /\ seqs'[k].pc = "create")
              => /\ IsResolution(DOMAIN files, seqs[k].url, seqs'[k].path)
                 /\ files' = files ]_vars

\* The resolver has returned "report (2).txt" in a directory holding
\* report.txt and "report (1).txt".
C10_Witness ==
    /\ { <<"report", ".", "txt">>, <<"report", " (", "1", ")", ".", "txt">> }
          \subseteq DOMAIN files
    /\ \/ ParallelTaken /\ output_path = <<"report", " (", "2", ")", ".", "txt">>
       \/ /\ SequentialTaken
          /\ seqs[0].pc = "create"
          /\ seqs[0].path = <<"report", " (", "2", ")", ".", "txt">>
          /\ seqs[0].path \notin DOMAIN files

\* The paths download() has resolved so far, each with the URL it was
\* resolved for.
Resolved ==
    (IF ParallelTaken THEN { [url |-> call.url, path |-> output_path] } ELSE {})
    \cup { [url |-> seqs[k].url, path |-> seqs[k].path] :
             k \in { j \in DOMAIN seqs : seqs[j].path /= <<>> } }

\* C11: when the candidate filename has an empty extension and the
\* candidate already exists, the resolved name is "{stem} (i)": no
\* extension part and no trailing dot.
C11_NoTrailingDot ==
    \A r \in Resolved :
        ( /\ ext(FilenameOf(r.url)) = <<>>
          /\ FilenameOf(r.url) \in DOMAIN files
          /\ r.path /= FilenameOf(r.url) )
        => \E i \in 1..(Cardinality(DOMAIN files) + 1) :
              r.path = file_stem(FilenameOf(r.url)) \o <<" (">> \o Dec(i) \o <<")">>

\* C12: if the probe fails, by a network failure or by a non-success
\* status, download() returns RequestError and takes neither strategy: no
\* GET is sent and no output file is created or opened.
C12_ProbeFailure ==
    (call.kind = "download" /\ pc /= "head"
        /\ (~server.transport \/ ~IsSuccess(server.status)))
    => /\ pc = "returned"
       /\ result = Some(Err("RequestError"))
       /\ ~ParallelTaken /\ ~SequentialTaken
       /\ tasks = <<>> /\ seqs = <<>>

\* C13: in a sequential download whose GET and writes succeed, the output
\* file holds exactly the chunks of the response body in the order they
\* were received, starting from an empty file, so that at the end its size
\* is the size of the body whatever Content-Length was reported.
C13_Sequential ==
    (SequentialTaken /\ seqs[0].path /= <<>> /\ seqs[0].result /= Some(Err("FileWriteError"))
        /\ seqs[0].result /= Some(Err("RequestError")))
    => /\ seqs[0].pc = "create" => seqs[0].path \notin DOMAIN files
       /\ seqs[0].pc = "write" =>
             /\ files[seqs[0].path] \o seqs[0].stream = GetBody(None)
             /\ Len(files[seqs[0].path]) = seqs[0].cursor
       /\ seqs[0].pc = "done" =>
             /\ files[seqs[0].path] = GetBody(None)
             /\ Len(files[seqs[0].path]) = Len(GetBody(None))

\* sequential() has returned the path of a file of three bytes, the whole
\* body, after a probe that reported a Content-Length of 0.
C13_Witness ==
    /\ SequentialTaken
    /\ pc = "returned"
    /\ result = Some(Ok(seqs[0].path))
    /\ server.content_length = Some(<<"0">>)
    /\ IsSuccess(server.status)
    /\ Len(server.resource) = 3
    /\ files[seqs[0].path] = server.resource

\* C14: parallel() returns success only after every one of the conn_count
\* fetchers it spawned has terminated.
C14_JoinBeforeSuccess ==
    (ParallelTaken /\ pc = "returned" /\ Unwrap(result).kind = "Ok")
    => /\ DOMAIN tasks = 0..(conn_count - 1)
       /\ \A i \in DOMAIN tasks : tasks[i].pc \in {"done", "aborted"}

\* parallel() has returned success with two fetchers, each of which wrote.
C14_Witness ==
    /\ ParallelTaken /\ pc = "returned" /\ Unwrap(result).kind = "Ok"
    /\ conn_count = 2
    /\ \A i \in DOMAIN tasks : tasks[i].pc = "done" /\ tasks[i].cursor > tasks[i].start

\* C15: a fetcher never writes outside its segment [start, end], whatever
\* body the server returns: the offset after its last write is at most
\* end + 1.
C15_WritesInSegment ==
    \A i \in DOMAIN tasks :
        tasks[i].pc \in {"write", "done", "aborted"} => tasks[i].cursor <= tasks[i].end + 1

\* A fetcher opens the output file in this step.
Opens(i) == i \in DOMAIN tasks /\ tasks[i].pc = "open" /\ tasks'[i].pc = "get"

\* C16: a fetcher's open creates the file if it is absent and never
\* truncates it: every file keeps its content across the step, so no byte
\* another fetcher has written is erased.
C16_OpenKeepsBytes ==
    [][(\E i \in DOMAIN tasks : Opens(i))
         => /\ output_path \in DOMAIN files'
            /\ \A p \in DOMAIN files : p \in DOMAIN files' /\ files'[p] = files[p]]_vars

\* The second fetcher has opened the file, which holds what the first
\* one wrote.
C16_Witness ==
    /\ ParallelTaken /\ DOMAIN tasks = {0, 1}
    /\ tasks[0].pc = "done" /\ tasks[0].cursor > tasks[0].start
    /\ tasks[1].pc = "get"
    /\ files[output_path] /= <<>>

\* C17: with chunk_size = content_length / conn_count, fetcher i below the
\* last has the segment [i*chunk_size, i*chunk_size + chunk_size - 1], the
\* last one [(conn_count-1)*chunk_size, content_length - 1], and each sends
\* the Range header "bytes=start-end" of its segment.
C17_PlannerFormula ==
    ParallelTaken =>
        /\ chunk_size = content_length \div conn_count
        /\ \A i \in DOMAIN tasks :
              /\ tasks[i].range = RangeHeader(tasks[i].start, tasks[i].end)
              /\ tasks[i].start = i * chunk_size
              /\ tasks[i].end = IF i = conn_count - 1 THEN content_length - 1
                                ELSE i * chunk_size + chunk_size - 1

\* C18: two downloads running concurrently on one Downloader never
\* resolve to the same output path, whatever the interleaving of their
\* existence checks and file creations.
C18_DistinctPaths ==
    \A j, k \in Downloads :
        (j /= k /\ seqs[j].path /= <<>> /\ seqs[k].path /= <<>>)
        => seqs[j].path /= seqs[k].path

\* A fetcher's GET is answered in this step.
Requests(i) == i \in DOMAIN tasks /\ tasks[i].pc = "get" /\ tasks'[i].pc = "seek"

\* C19: once download() has returned, with success or with an error, no
\* segment fetcher of the request sends a request or writes to the output
\* file any more.
C19_QuietAfterReturn ==
    [][(call.kind = "download" /\ pc = "returned")
         => /\ files' = files
            /\ ~\E i \in DOMAIN tasks : Requests(i)]_vars

\* C20: sequential() resolves the output path and creates the file only
\* after the GET has been answered; while the GET is outstanding no step
\* changes the output directory, and if it fails sequential() returns
\* RequestError with no path resolved.
C20_GetBeforeCreate ==
    [][SequentialTaken =>
         /\ seqs[0].path /= <<>> => (seqs[0].status /= 0 /\ seqs[0].pc /= "get")
         /\ files' /= files => (seqs[0].status /= 0 /\ seqs[0].pc \in {"create", "write"})
         /\ seqs[0].pc = "get" =>
               /\ files' = files
               /\ seqs'[0].pc = "done" =>
                     /\ seqs'[0].result = Some(Err("RequestError"))
                     /\ seqs'[0].path = <<>>]_vars

\* The GET failed: download() has returned RequestError, no path was
\* resolved and the files that were in the directory are as they were.
C20_Witness ==
    /\ SequentialTaken /\ pc = "returned" /\ result = Some(Err("RequestError"))
    /\ seqs[0].status = 0 /\ seqs[0].path = <<>>
    /\ DOMAIN files = {<<"report", ".", "txt">>}
    /\ files[<<"report", ".", "txt">>] = OldContent

====
